---- MODULE Spec2Model ----
(***************************************************************************)
(* Stripe webhook -> GoHighLevel (GHL) v1 contact upsert pipeline.         *)
(*                                                                         *)
(* Two registerStripeWebhooks/ghlV1UpsertContact implementations exist in  *)
(* the repository: the tag-merging one (src/unnamed/part_003:278-600) and  *)
(* the one that posts the new tags as they are (src/webhooks.js:239-483).  *)
(* The variable impl says which of the two modules is mounted.             *)
(*                                                                         *)
(* A delivery is one invocation of the async route handler.  Every action  *)
(* is the synchronous code that runs between two awaits of one delivery.   *)
(*                                                                         *)
(* src/server.js is modelled with impl = SERVER_JS: the stage-id resolver  *)
(* and its cache (StageSpec), the webhook handler that creates a CRM       *)
(* opportunity (ServerSpec) and the chat route POST / (ChatSpec).          *)
(***************************************************************************)
EXTENDS Integers, Sequences, FiniteSets, TLC

\* ------------------------------------------------------------------ bounds
MaxDeliveries == 2      \* webhook deliveries in one behaviour
MaxCalls == 2           \* resolveV1StageIdByName calls in one behaviour

Reqs == 1..MaxDeliveries
Calls == 1..MaxCalls

\* --------------------------------------------------------------- strings
RECURSIVE trimStart(_)
trimStart(s) ==
    IF Len(s) > 0 /\ Head(s) = " " THEN trimStart(SubSeq(s, 2, Len(s))) ELSE s

RECURSIVE trimEnd(_)
trimEnd(s) ==
    IF Len(s) > 0 /\ SubSeq(s, Len(s), Len(s)) = " "
    THEN trimEnd(SubSeq(s, 1, Len(s) - 1))
    ELSE s

\* String.prototype.trim
trim(s) == trimEnd(trimStart(s))

\* arr.map(t => String(t).trim()).filter(Boolean)
trimFilter(arr) ==
    SelectSeq([i \in 1..Len(arr) |-> trim(arr[i])], LAMBDA t : t # "")

Range(arr) == {arr[i] : i \in 1..Len(arr)}

\* Array.from(new Set(arr)): first occurrences, in order
RECURSIVE uniq(_)
uniq(arr) ==
    IF arr = <<>> THEN <<>>
    ELSE LET init == uniq(SubSeq(arr, 1, Len(arr) - 1))
             last == arr[Len(arr)]
         IN  IF last \in Range(init) THEN init ELSE Append(init, last)

\* s.split(","), on a string without regular expressions
RECURSIVE splitComma(_)
splitComma(s) ==
    IF \A i \in 1..Len(s) : SubSeq(s, i, i) # "," THEN <<s>>
    ELSE LET k == CHOOSE i \in 1..Len(s) :
                      /\ SubSeq(s, i, i) = ","
                      /\ \A j \in 1..(i - 1) : SubSeq(s, j, j) # ","
         IN  <<SubSeq(s, 1, k - 1)>> \o splitComma(SubSeq(s, k + 1, Len(s)))

\* the characters \s matches, of those that occur in the inputs
Whitespace == {" ", "\t", "\n"}

\* s.split(/\s+/): cut at every run of whitespace; a run at either end
\* leaves an empty string there
RECURSIVE splitWhitespace(_)
splitWhitespace(s) ==
    IF \A i \in 1..Len(s) : SubSeq(s, i, i) \notin Whitespace THEN <<s>>
    ELSE LET k == CHOOSE i \in 1..Len(s) :
                      /\ SubSeq(s, i, i) \in Whitespace
                      /\ \A j \in 1..(i - 1) : SubSeq(s, j, j) \notin Whitespace
             e == CHOOSE i \in k..Len(s) :
                      /\ \A j \in k..i : SubSeq(s, j, j) \in Whitespace
                      /\ (i = Len(s) \/ SubSeq(s, i + 1, i + 1) \notin Whitespace)
         IN  <<SubSeq(s, 1, k - 1)>> \o splitWhitespace(SubSeq(s, e + 1, Len(s)))

\* arr.join(" ")
RECURSIVE joinSpace(_)
joinSpace(arr) ==
    IF arr = <<>> THEN ""
    ELSE IF Len(arr) = 1 THEN arr[1]
    ELSE arr[1] \o " " \o joinSpace(Tail(arr))

\* splitName that takes the last token alone as the last name
splitName_lastTokenOnly(full) ==
    LET parts == SelectSeq(splitWhitespace(trim(full)), LAMBDA t : t # "")
    IN  [first |-> IF parts # <<>> THEN parts[1] ELSE "",
         last  |-> IF Len(parts) > 1 THEN parts[Len(parts)] ELSE ""]

\* splitName(full): (full || "").trim().split(/\s+/).filter(Boolean), then
\* parts[0] || "" and parts.slice(1).join(" ") || ""
splitName(full) ==
    LET parts == SelectSeq(splitWhitespace(trim(full)), LAMBDA t : t # "")
    IN  [first |-> IF parts # <<>> THEN parts[1] ELSE "",
         last  |-> IF Len(parts) > 1 THEN joinSpace(Tail(parts)) ELSE ""]

\* String.prototype.toLowerCase, for the letters A to Z
toLowerCaseChar(ch) ==
    LET upper == "ABCDEFGHIJKLMNOPQRSTUVWXYZ"
        lower == "abcdefghijklmnopqrstuvwxyz"
    IN  IF \E i \in 1..26 : SubSeq(upper, i, i) = ch
        THEN LET i == CHOOSE i \in 1..26 : SubSeq(upper, i, i) = ch
             IN  SubSeq(lower, i, i)
        ELSE ch

RECURSIVE toLowerCase(_)
toLowerCase(s) ==
    IF Len(s) = 0 THEN ""
    ELSE toLowerCaseChar(SubSeq(s, 1, 1)) \o toLowerCase(SubSeq(s, 2, Len(s)))

\* n in decimal, padded with zeros to w digits
RECURSIVE pad(_, _)
pad(n, w) ==
    IF w = 0 THEN ""
    ELSE pad(n \div 10, w - 1) \o SubSeq("0123456789", (n % 10) + 1, (n % 10) + 1)

\* new Date(sec * 1000).toISOString() for sec >= 0: the proleptic Gregorian
\* date and the time of day in UTC, "YYYY-MM-DDTHH:mm:ss.sssZ"; a whole
\* number of seconds leaves the milliseconds at 000
toISOString(sec) ==
    LET days == sec \div 86400
        rem  == sec % 86400
        z    == days + 719468
        era  == z \div 146097
        doe  == z - era * 146097
        yoe  == (doe - doe \div 1460 + doe \div 36524 - doe \div 146096)
                    \div 365
        doy  == doe - (365 * yoe + yoe \div 4 - yoe \div 100)
        mp   == (5 * doy + 2) \div 153
        d    == doy - (153 * mp + 2) \div 5 + 1
        m    == IF mp < 10 THEN mp + 3 ELSE mp - 9
        y    == yoe + era * 400 + (IF m <= 2 THEN 1 ELSE 0)
    IN  pad(y, 4) \o "-" \o pad(m, 2) \o "-" \o pad(d, 2) \o "T"
        \o pad(rem \div 3600, 2) \o ":" \o pad((rem % 3600) \div 60, 2)
        \o ":" \o pad(rem % 60, 2) \o ".000Z"

\* ------------------------------------------------------------------ TAGS
TAGS ==
    [STABLE |-> [TRIAL      |-> "fc:trial_checkout",
                 ACTIVE     |-> "fc:payment_succeeded",
                 SUB_ACTIVE |-> "fc:sub_active",
                 DUNNING    |-> "fc:payment_failed",
                 CANCELED   |-> "fc:sub_canceled"]]

evt_cs(id) == "evt:cs_" \o id
evt_in(id) == "evt:in_" \o id
evt_sub(id) == "evt:sub_" \o id

StableTags == {TAGS.STABLE[k] : k \in DOMAIN TAGS.STABLE}

\* ---------------------------------------------------------------- inputs
EmailA == "a@x.com"
EmailB == "b@x.com"
Emails == {EmailA, EmailB}

CHECKOUT == "checkout.session.completed"
INV_OK == "invoice.payment_succeeded"
INV_FAILED == "invoice.payment_failed"
SUB_DELETED == "customer.subscription.deleted"
SUB_UPDATED == "customer.subscription.updated"
SUB_CREATED == "customer.subscription.created"
INV_PAID == "invoice.paid"

HandledTypes == {CHECKOUT, INV_OK, INV_FAILED, SUB_DELETED, SUB_UPDATED}

\* event.created, in seconds since the epoch
CreatedEarlier == 1700000000
CreatedLater == 1709251199

\* event.type, event.created and the fields of event.data.object the
\* handler reads; "" is an absent field
Obj(type, id, cde, ce, sub, cus, st) ==
    [type |-> type, id |-> id, cd_email |-> cde, customer_email |-> ce,
     subscription |-> sub, customer |-> cus, status |-> st,
     created |-> CreatedEarlier, name |-> ""]

\* checkout sessions: customer_details.email, customer_email and
\* customer_details.name
Checkouts ==
    {[Obj(CHECKOUT, "cs_1", p[1], p[2], "", "cus_1", "") EXCEPT !.name = p[3]] :
        p \in {<<EmailA, EmailB, "Jane Doe">>,
               <<"", EmailA, "  Mary  Ann\tSmith ">>,
               <<"", "", "">>,
               <<EmailA, "", "Cher">>,
               <<EmailA, "", "   ">>}}

Events ==
    Checkouts
    \cup {Obj(t, "in_1", "", p[1], p[2], "cus_1", "") :
        t \in {INV_OK, INV_FAILED},
        p \in {<<EmailA, "sub_1">>, <<EmailA, "">>, <<"", "sub_1">>}}
    \cup {Obj(SUB_DELETED, "sub_1", "", "", "", cus, "canceled") :
        cus \in {"", "cus_1"}}
    \cup {Obj(SUB_UPDATED, "sub_1", "", "", "", p[1], p[2]) :
        p \in {<<"cus_1", "active">>, <<"", "active">>,
               <<"cus_1", "past_due">>}}
    \cup {Obj(SUB_CREATED, "sub_1", "", "", "", "cus_1", "trialing"),
          Obj(INV_PAID, "in_1", "", EmailA, "sub_1", "cus_1", "paid")}
    \cup {[Obj(INV_OK, "in_2", "", EmailA, "sub_1", "cus_1", "")
               EXCEPT !.created = CreatedLater],
          [Obj(SUB_DELETED, "sub_1", "", "", "", "cus_1", "canceled")
               EXCEPT !.created = CreatedLater]}

NoEvent == [Obj("", "", "", "", "", "", "") EXCEPT !.created = 0]

\* The stripe-signature header: absent, or a MAC of some body under some
\* secret.
WebhookSecret == "whsec"
NoSig == [present |-> FALSE, secret |-> "", body |-> NoEvent]
Sign(body, secret) == [present |-> TRUE, secret |-> secret, body |-> body]

SigsFor(ev) ==
    {NoSig, Sign(ev, WebhookSecret), Sign(ev, "whsec_other"),
     Sign(NoEvent, WebhookSecret)}

\* constructEvent that checks the secret but not the body
constructEventOk_anyBody(body, sig) ==
    sig.present /\ sig.secret = WebhookSecret

\* stripe.webhooks.constructEvent succeeds iff the header is a MAC of this
\* very body under STRIPE_WEBHOOK_SECRET
constructEventOk(body, sig) ==
    sig.present /\ sig.secret = WebhookSecret /\ sig.body = body

\* process.env
EnvConfigs ==
    {[GHL_V1_API_KEY |-> "k", GHL_LOCATION_ID |-> "loc",
      CONVERTKIT_API_KEY |-> "ck", CONVERTKIT_FORM_ID |-> "f1",
      CONVERTKIT_TAG_IDS |-> " 7,"],
     [GHL_V1_API_KEY |-> "", GHL_LOCATION_ID |-> "loc",
      CONVERTKIT_API_KEY |-> "", CONVERTKIT_FORM_ID |-> "f1",
      CONVERTKIT_TAG_IDS |-> ""],
     [GHL_V1_API_KEY |-> "k", GHL_LOCATION_ID |-> "",
      CONVERTKIT_API_KEY |-> "ck", CONVERTKIT_FORM_ID |-> "",
      CONVERTKIT_TAG_IDS |-> "7"]}

\* the CRM contact of EmailA before the first delivery
PriorTags ==
    {<<"done:fc:trial_checkout">>,
     <<" vip ", "", "fc:payment_succeeded", "vip">>}

NoContact == [exists |-> FALSE, tags |-> <<>>, fields |-> <<>>]
OtherContact == [exists |-> TRUE, tags |-> <<"b_only">>, fields |-> <<>>]
NoCrm == [e \in Emails |-> NoContact]

PART_003 == "part_003"
WEBHOOKS_JS == "webhooks.js"
Impls == {PART_003, WEBHOOKS_JS}

\* the module of src/server.js:341-801, where resolveV1StageIdByName lives
SERVER_JS == "server.js"

\* arguments of resolveV1StageIdByName
PipelineIds == {"p1", "p2"}
StageNames == {"Trial", "Active"}

\* an opportunity of the two list endpoints, a stage of the pipeline object
Opp(p, n, id) == [pipelineId |-> p, stageName |-> n, stageId |-> id]
Stage(n, id) == [name |-> n, id |-> id]
NoOpp == Opp("", "", "")
NoStage == Stage("", "")

\* what a probe can get: the fetch throws, a non-OK response, or an OK
\* response with a list (a body that is not JSON gives the empty list)
OppLists ==
    {<<>>,
     <<Opp("p1", "trial", "st_1")>>,
     <<Opp("p2", "TRIAL", "st_9"), Opp("p1", "Trial", "st_1")>>,
     <<Opp("p1", "Trial", ""), Opp("p1", "Trial", "st_1")>>,
     <<Opp("p1", "Active", "st_2")>>}

StageLists ==
    {<<>>,
     <<Stage("Active", "st_2"), Stage("TRIAL", "st_1")>>,
     <<Stage("trial", "")>>}

Failed == {[kind |-> "throw", items |-> <<>>], [kind |-> "notok", items |-> <<>>]}
OppResponses == Failed \cup {[kind |-> "ok", items |-> l] : l \in OppLists}
StageResponses == Failed \cup {[kind |-> "ok", items |-> l] : l \in StageLists}

\* ----------------------------------------------------------------- state
VARIABLES
    impl,       \* which webhooks module is mounted
    env,        \* process.env
    crm,        \* the GHL contacts, by email: [exists, tags]
    started,    \* deliveries received so far
    req,        \* per delivery: the handler's position, locals and effects
    _stageIdCache,  \* the Map of src/server.js:348, by key: [has, value]
    call,       \* per resolveV1StageIdByName call: position, locals, effects
    opportunities   \* the GHL opportunities created, in order

vars == <<impl, env, crm, started, req, _stageIdCache, call, opportunities>>
stageVars == <<_stageIdCache, call, opportunities>>

\* an object as the list of its <<key, value>> entries, in insertion order
Keys(obj) == {obj[i][1] : i \in 1..Len(obj)}
Get(obj, k) ==
    IF k \in Keys(obj)
    THEN obj[CHOOSE i \in 1..Len(obj) : obj[i][1] = k][2]
    ELSE ""

\* the contact's custom fields after an upsert that carries customFields:
\* the fields named in the payload take the payload's values
putFields(old, customFields) ==
    SelectSeq(old, LAMBDA kv : kv[1] \notin Keys(customFields)) \o customFields

NoCalls == [stripe |-> 0, get |-> 0, post |-> 0, ck |-> 0]

\* req[r].pc: "idle" (not received), "stripe" (awaiting
\* stripe.customers.retrieve), "lookup" (awaiting the GET of
\* ghlV1GetContactByEmail), "post" (awaiting the POST of ghlV1UpsertContact),
\* "ck" (awaiting a ConvertKit fetch), "done" (response sent).
\* sig, retrieve, lookup, result, pre and before record what happened, for
\* the properties; the handler does not read them:
\*   sig       how the signature check went
\*   retrieve  how stripe.customers.retrieve settled
\*   lookup    how the GET of ghlV1GetContactByEmail settled
\*   result    how the POST of ghlV1UpsertContact settled
\*   pre       the CRM when the delivery arrived
\*   before    the deliveries that were answered when this one arrived
Fresh ==
    [pc |-> "idle", event |-> NoEvent, email |-> "", tags |-> <<>>,
     existingTags |-> <<>>, mergedTags |-> <<>>, customFields |-> <<>>,
     firstName |-> "", lastName |-> "",
     ckQueue |-> <<>>, status |-> 0, calls |-> NoCalls,
     sig |-> "", retrieve |-> "", lookup |-> "", result |-> "",
     pre |-> NoCrm, before |-> {}]

\* `${pipelineId}::${stageName}`
cacheKey(pipelineId, stageName) == pipelineId \o "::" \o stageName

CacheKeys == {cacheKey(p, n) : p \in PipelineIds, n \in StageNames}
NoEntry == [has |-> FALSE, value |-> ""]
EmptyCache == [k \in CacheKeys |-> NoEntry]

\* call[c].pc: "idle" (not called), "try1", "try2", "try3" (awaiting the
\* fetch of that probe), "returned", "thrown".
\* probes, source and atStart record what happened, for the properties:
\*   probes   the probes whose fetch went out, in order
\*   source   where the value returned came from ("cache" or a probe)
\*   atStart  the cache entry of the key when the call began
\*   hit      the record the value returned was read from
NoCall ==
    [pc |-> "idle", pipelineId |-> "", stageName |-> "", key |-> "",
     probes |-> <<>>, source |-> "", ret |-> "", atStart |-> NoEntry,
     hit |-> NoOpp]

InFlight == {r \in Reqs : req[r].pc \notin {"idle", "done"}}
Done == {r \in Reqs : req[r].pc = "done"}

TypeOK ==
    /\ impl \in Impls
    /\ env \in EnvConfigs
    /\ DOMAIN crm = Emails
    /\ started \in 0..MaxDeliveries
    /\ \A r \in Reqs :
        /\ req[r].pc \in {"idle", "stripe", "lookup", "post", "ck", "done"}
        /\ req[r].status \in {0, 200, 400, 500}
        /\ req[r].event \in Events \cup {NoEvent}

Init ==
    /\ impl \in Impls
    /\ env \in EnvConfigs
    /\ crm \in {[e \in Emails |-> IF e = EmailA THEN c ELSE OtherContact] :
                  c \in {NoContact} \cup
                        {[exists |-> TRUE, tags |-> t, fields |-> <<>>] :
                            t \in PriorTags}}
    /\ started = 0
    /\ req = [r \in Reqs |-> Fresh]
    /\ _stageIdCache = EmptyCache
    /\ call = [c \in Calls |-> NoCall]
    /\ opportunities = <<>>

\* ------------------------------------------------------- handler pieces
\* res.json({received: true}) / res.status(code).send(...)
respond(q, code) == [q EXCEPT !.pc = "done", !.status = code]

\* convertKitSubscribe up to its first fetch; every fetch is awaited inside
\* its own try/catch, so the calls go out one after the other
convertKitSubscribe(q) ==
    LET tagIds == trimFilter(splitComma(env.CONVERTKIT_TAG_IDS))
        queue  == (IF env.CONVERTKIT_FORM_ID # "" THEN <<"form">> ELSE <<>>)
                  \o [i \in 1..Len(tagIds) |-> "tag:" \o tagIds[i]]
    IN  IF env.CONVERTKIT_API_KEY = "" \/ queue = <<>>
        THEN respond(q, 200)
        ELSE [q EXCEPT !.pc = "ck", !.ckQueue = queue, !.calls.ck = @ + 1]

\* what the case of the switch does once ghlV1UpsertContact has returned
afterUpsert(q) ==
    IF q.event.type = CHECKOUT /\ impl = PART_003
    THEN convertKitSubscribe(q)
    ELSE respond(q, 200)

\* mergeAndPost with line 358 lost: the payload keeps the new tags only
mergeAndPost_newTagsOnly(q, outcome, existing) ==
    [q EXCEPT !.lookup = outcome,
              !.existingTags = existing,
              !.pc = "post",
              !.calls.post = @ + 1]

\* mergeAndPost that gives up the upsert when the lookup found nothing
mergeAndPost_abortWithoutContact(q, outcome, existing) ==
    IF outcome \in {"hit", "other"}
    THEN [q EXCEPT !.lookup = outcome,
                   !.existingTags = existing,
                   !.mergedTags = uniq(trimFilter(existing) \o q.mergedTags),
                   !.pc = "post",
                   !.calls.post = @ + 1]
    ELSE afterUpsert([q EXCEPT !.lookup = outcome])

\* mergeAndPost with mergedTags declared at module scope: line 358 then
\* merges into whatever the latest other invocation left in it
mergeAndPost_sharedMergedTags(q, outcome, existing) ==
    LET others == {r \in Reqs : /\ req[r].pc \in {"lookup", "post"}
                                /\ req[r].mergedTags # q.mergedTags}
        shared == IF others = {} THEN q.mergedTags
                  ELSE req[CHOOSE r \in others :
                               \A x \in others : x <= r].mergedTags
    IN  [q EXCEPT !.lookup = outcome,
                  !.existingTags = existing,
                  !.mergedTags = uniq(trimFilter(existing) \o shared),
                  !.pc = "post",
                  !.calls.post = @ + 1]

\* ghlV1UpsertContact of part_003 from the merge of the looked-up tags to
\* the fetch of the POST; existing is the tags array of the contact the
\* lookup returned (<<>> when it returned null or a contact without tags)
mergeAndPost(q, outcome, existing) ==
    LET existingTags == trimFilter(existing)
    IN  [q EXCEPT !.lookup = outcome,
                  !.existingTags = existing,
                  !.mergedTags = uniq(existingTags \o q.mergedTags),
                  !.pc = "post",
                  !.calls.post = @ + 1]

\* ghlV1GetContactByEmail whose GET is not awaited: the POST goes out while
\* the lookup is still under way
ghlV1GetContactByEmail_notAwaited(q) ==
    IF trim(env.GHL_V1_API_KEY) = "" \/ trim(env.GHL_LOCATION_ID) = ""
       \/ q.email = ""
    THEN mergeAndPost(q, "null", <<>>)
    ELSE mergeAndPost([q EXCEPT !.calls.get = @ + 1], "", <<>>)

\* ghlV1GetContactByEmail up to its fetch
ghlV1GetContactByEmail(q) ==
    IF trim(env.GHL_V1_API_KEY) = "" \/ trim(env.GHL_LOCATION_ID) = ""
       \/ q.email = ""
    THEN mergeAndPost(q, "null", <<>>)
    ELSE [q EXCEPT !.pc = "lookup", !.calls.get = @ + 1]

\* ghlV1UpsertContact without the check of apiKey and locationId
ghlV1UpsertContact_noConfigCheck(q) ==
    IF q.email = "" THEN afterUpsert(q)
    ELSE IF impl = PART_003
    THEN ghlV1GetContactByEmail(
             [q EXCEPT !.mergedTags = uniq(trimFilter(q.tags))])
    ELSE [q EXCEPT !.mergedTags = q.tags,
                   !.pc = "post",
                   !.calls.post = @ + 1]

\* ghlV1UpsertContact up to its first fetch
ghlV1UpsertContact(q) ==
    IF q.email = "" THEN afterUpsert(q)
    ELSE IF impl = PART_003
    THEN IF trim(env.GHL_V1_API_KEY) = "" \/ trim(env.GHL_LOCATION_ID) = ""
         THEN afterUpsert(q)
         ELSE ghlV1GetContactByEmail(
                  [q EXCEPT !.mergedTags = uniq(trimFilter(q.tags))])
    ELSE IF env.GHL_V1_API_KEY = "" \/ env.GHL_LOCATION_ID = ""
         THEN afterUpsert(q)
         ELSE [q EXCEPT !.mergedTags = q.tags,
                        !.pc = "post",
                        !.calls.post = @ + 1]

\* newTags with the stable tags of the two invoice cases swapped
newTags_invoiceSwapped(o) ==
    CASE o.type = CHECKOUT -> <<TAGS.STABLE.TRIAL, evt_cs(o.id)>>
      [] o.type = INV_OK ->
            <<TAGS.STABLE.DUNNING, evt_in(o.id)>>
            \o (IF o.subscription # "" THEN <<evt_sub(o.subscription)>>
                ELSE <<>>)
      [] o.type = INV_FAILED ->
            <<TAGS.STABLE.ACTIVE, evt_in(o.id)>>
            \o (IF o.subscription # "" THEN <<evt_sub(o.subscription)>>
                ELSE <<>>)
      [] o.type = SUB_DELETED -> <<TAGS.STABLE.CANCELED, evt_sub(o.id)>>
      [] o.type = SUB_UPDATED ->
            <<TAGS.STABLE.ACTIVE, TAGS.STABLE.SUB_ACTIVE, evt_sub(o.id)>>
      [] OTHER -> <<>>

\* the tags array each case of the switch builds
newTags(o) ==
    CASE o.type = CHECKOUT -> <<TAGS.STABLE.TRIAL, evt_cs(o.id)>>
      [] o.type = INV_OK ->
            <<TAGS.STABLE.ACTIVE, evt_in(o.id)>>
            \o (IF o.subscription # "" THEN <<evt_sub(o.subscription)>>
                ELSE <<>>)
      [] o.type = INV_FAILED ->
            <<TAGS.STABLE.DUNNING, evt_in(o.id)>>
            \o (IF o.subscription # "" THEN <<evt_sub(o.subscription)>>
                ELSE <<>>)
      [] o.type = SUB_DELETED -> <<TAGS.STABLE.CANCELED, evt_sub(o.id)>>
      [] o.type = SUB_UPDATED ->
            <<TAGS.STABLE.ACTIVE, TAGS.STABLE.SUB_ACTIVE, evt_sub(o.id)>>
      [] OTHER -> <<>>

\* customFields with the event time taken from the clock at processing time
\* (the count of deliveries received stands for Date.now())
customFields_wallClock(o) ==
    LET cust == <<"Stripe Customer ID", o.customer>>
        last == << <<"Last Stripe Event Type", o.type>>,
                   <<"Last Stripe Event Time",
                     toISOString(CreatedEarlier + started)>> >>
    IN  CASE o.type = CHECKOUT ->
                << <<"Last Checkout Session ID", o.id>>, cust >> \o last
          [] o.type \in {INV_OK, INV_FAILED} ->
                << <<"Last Invoice ID", o.id>>,
                   <<"Last Subscription ID", o.subscription>>, cust >> \o last
          [] o.type \in {SUB_DELETED, SUB_UPDATED} ->
                << <<"Last Subscription ID", o.id>>, cust >> \o last
          [] OTHER -> <<>>

\* the customFields object each case of the switch builds
customFields(o) ==
    LET cust == <<"Stripe Customer ID", o.customer>>
        last == << <<"Last Stripe Event Type", o.type>>,
                   <<"Last Stripe Event Time", toISOString(o.created)>> >>
    IN  CASE o.type = CHECKOUT ->
                << <<"Last Checkout Session ID", o.id>>, cust >> \o last
          [] o.type \in {INV_OK, INV_FAILED} ->
                << <<"Last Invoice ID", o.id>>,
                   <<"Last Subscription ID", o.subscription>>, cust >> \o last
          [] o.type \in {SUB_DELETED, SUB_UPDATED} ->
                << <<"Last Subscription ID", o.id>>, cust >> \o last
          [] OTHER -> <<>>

\* firstName and lastName of the payload: the checkout case passes the two
\* halves of splitName(customer_details.name), the other cases pass none
names(o) ==
    IF o.type = CHECKOUT THEN splitName(o.name)
    ELSE [first |-> "", last |-> ""]

\* withEmail that leaves the audit fields out of the write when a delivery
\* answered before wrote, for the same contact, an event created later
withEmail_skipsStaleFields(q, em) ==
    IF em = "" THEN respond(q, 200)
    ELSE ghlV1UpsertContact(
             [q EXCEPT !.email = em, !.tags = newTags(q.event),
                       !.firstName = names(q.event).first,
                       !.lastName = names(q.event).last,
                       !.customFields =
                           IF \E p \in Done :
                                  /\ req[p].email = em
                                  /\ req[p].result = "ok"
                                  /\ req[p].event.created > q.event.created
                           THEN <<>>
                           ELSE customFields(q.event)])

\* withEmail that reports a missing email as a failure instead of dropping
\* the event
withEmail_missingEmailFails(q, em) ==
    IF em = "" THEN respond(q, 500)
    ELSE ghlV1UpsertContact(
             [q EXCEPT !.email = em, !.tags = newTags(q.event),
                       !.firstName = names(q.event).first,
                       !.lastName = names(q.event).last,
                       !.customFields = customFields(q.event)])

\* a case of the switch from the point where the email is known
withEmail(q, em) ==
    IF em = "" THEN respond(q, 200)
    ELSE ghlV1UpsertContact(
             [q EXCEPT !.email = em, !.tags = newTags(q.event),
                       !.firstName = names(q.event).first,
                       !.lastName = names(q.event).last,
                       !.customFields = customFields(q.event)])

\* the two subscription cases up to stripe.customers.retrieve
viaCustomer(q) ==
    IF q.event.customer # ""
    THEN [q EXCEPT !.pc = "stripe", !.calls.stripe = @ + 1]
    ELSE withEmail(q, "")

\* dispatch without the status check of the subscription.updated case
dispatch_anyStatus(q) ==
    LET o == q.event
    IN  CASE o.type = CHECKOUT ->
                withEmail(q, IF o.cd_email # "" THEN o.cd_email
                             ELSE o.customer_email)
          [] o.type \in {INV_OK, INV_FAILED} -> withEmail(q, o.customer_email)
          [] o.type \in {SUB_DELETED, SUB_UPDATED} -> viaCustomer(q)
          [] OTHER -> respond(q, 200)

\* dispatch with a case for customer.subscription.created that falls
\* through to the subscription.updated case
dispatch_createdAsUpdated(q) ==
    LET o == q.event
    IN  CASE o.type = CHECKOUT ->
                withEmail(q, IF o.cd_email # "" THEN o.cd_email
                             ELSE o.customer_email)
          [] o.type \in {INV_OK, INV_FAILED} -> withEmail(q, o.customer_email)
          [] o.type = SUB_DELETED -> viaCustomer(q)
          [] o.type = SUB_UPDATED ->
                IF o.status # "active" THEN respond(q, 200)
                ELSE viaCustomer(q)
          [] o.type = SUB_CREATED -> viaCustomer(q)
          [] OTHER -> respond(q, 200)

\* switch (event.type), up to the first await
dispatch(q) ==
    LET o == q.event
    IN  CASE o.type = CHECKOUT ->
                withEmail(q, IF o.cd_email # "" THEN o.cd_email
                             ELSE o.customer_email)
          [] o.type \in {INV_OK, INV_FAILED} -> withEmail(q, o.customer_email)
          [] o.type = SUB_DELETED -> viaCustomer(q)
          [] o.type = SUB_UPDATED ->
                IF o.status # "active" THEN respond(q, 200)
                ELSE viaCustomer(q)
          [] OTHER -> respond(q, 200)

sigKind(body, sig) ==
    IF ~sig.present THEN "missing"
    ELSE IF sig.secret # WebhookSecret THEN "wrong_secret"
    ELSE IF sig.body # body THEN "tampered"
    ELSE "valid"

\* ---------------------------------------------------------------- actions
\* POST /api/stripe/webhook arrives: signature check, then the switch up to
\* its first await (or to the response when nothing is awaited)
ReceiveFrom(r, events) ==
    /\ req[r].pc = "idle"
    /\ r = started + 1
    /\ \E ev \in events : \E sig \in SigsFor(ev) :
        LET q == [Fresh EXCEPT !.sig = sigKind(ev, sig), !.pre = crm,
                                   !.before = Done]
        IN  req' = [req EXCEPT ![r] =
                IF constructEventOk(ev, sig)
                THEN dispatch([q EXCEPT !.event = ev])
                ELSE respond(q, 400)]
    /\ started' = started + 1
    /\ UNCHANGED <<impl, env, crm>>
    /\ UNCHANGED stageVars

Receive(r) == ReceiveFrom(r, Events)

\* RetrieveReturn without the try/catch around stripe.customers.retrieve:
\* the rejection reaches the catch of the handler
RetrieveReturn_throwPropagates(r) ==
    /\ req[r].pc = "stripe"
    /\ \/ req' = [req EXCEPT ![r] =
                    respond([req[r] EXCEPT !.retrieve = "throw"], 500)]
       \/ req' = [req EXCEPT ![r] =
                    withEmail([req[r] EXCEPT !.retrieve = "noemail"], "")]
       \/ req' = [req EXCEPT ![r] =
                    withEmail([req[r] EXCEPT !.retrieve = "email"], EmailA)]
    /\ UNCHANGED <<impl, env, crm, started>>
    /\ UNCHANGED stageVars

\* stripe.customers.retrieve settles: it throws, or returns a customer with
\* or without an email
RetrieveReturn(r) ==
    /\ req[r].pc = "stripe"
    /\ \/ req' = [req EXCEPT ![r] =
                    withEmail([req[r] EXCEPT !.retrieve = "throw"], "")]
       \/ req' = [req EXCEPT ![r] =
                    withEmail([req[r] EXCEPT !.retrieve = "noemail"], "")]
       \/ req' = [req EXCEPT ![r] =
                    withEmail([req[r] EXCEPT !.retrieve = "email"], EmailA)]
    /\ UNCHANGED <<impl, env, crm, started>>
    /\ UNCHANGED stageVars

\* the GET of ghlV1GetContactByEmail settles and ghlV1UpsertContact goes on
\* to its POST
LookupReturn(r) ==
    /\ req[r].pc = "lookup"
    /\ LET e == req[r].email
       IN  \/ req' = [req EXCEPT ![r] = mergeAndPost(req[r], "throw", <<>>)]
           \/ req' = [req EXCEPT ![r] = mergeAndPost(req[r], "notok", <<>>)]
           \/ /\ ~crm[e].exists
              /\ req' = [req EXCEPT ![r] = mergeAndPost(req[r], "empty", <<>>)]
           \/ /\ crm[e].exists
              /\ req' = [req EXCEPT ![r] =
                            mergeAndPost(req[r], "hit", crm[e].tags)]
           \/ \E e2 \in Emails \ {e} :
                /\ crm[e2].exists
                /\ req' = [req EXCEPT ![r] =
                              mergeAndPost(req[r], "other", crm[e2].tags)]
    /\ UNCHANGED <<impl, env, crm, started>>
    /\ UNCHANGED stageVars

\* PostReturn without the try/catch around the switch: the rejection of the
\* fetch leaves the async handler and no response is ever sent
PostReturn_noTopLevelCatch(r) ==
    /\ req[r].pc = "post"
    /\ \/ /\ crm' = [crm EXCEPT ![req[r].email] =
                        [exists |-> TRUE, tags |-> req[r].mergedTags,
                         fields |-> putFields(@.fields, req[r].customFields)]]
          /\ req' = [req EXCEPT ![r] =
                        afterUpsert([req[r] EXCEPT !.result = "ok"])]
       \/ /\ req' = [req EXCEPT ![r] =
                        afterUpsert([req[r] EXCEPT !.result = "notok"])]
          /\ UNCHANGED crm
       \/ /\ req' = [req EXCEPT ![r] =
                        [req[r] EXCEPT !.result = "throw", !.pc = "done"]]
          /\ UNCHANGED crm
    /\ UNCHANGED <<impl, env, started>>
    /\ UNCHANGED stageVars

\* the POST of ghlV1UpsertContact settles
PostReturn(r) ==
    /\ req[r].pc = "post"
    /\ \/ /\ crm' = [crm EXCEPT ![req[r].email] =
                        [exists |-> TRUE, tags |-> req[r].mergedTags,
                         fields |-> putFields(@.fields, req[r].customFields)]]
          /\ req' = [req EXCEPT ![r] =
                        afterUpsert([req[r] EXCEPT !.result = "ok"])]
       \/ /\ req' = [req EXCEPT ![r] =
                        afterUpsert([req[r] EXCEPT !.result = "notok"])]
          /\ UNCHANGED crm
       \/ /\ req' = [req EXCEPT ![r] =
                        respond([req[r] EXCEPT !.result = "throw"], 500)]
          /\ UNCHANGED crm
    /\ UNCHANGED <<impl, env, started>>
    /\ UNCHANGED stageVars

\* CkReturn without the try/catch around each ConvertKit fetch: a throw
\* reaches the catch of the handler
CkReturn_throwPropagates(r) ==
    /\ req[r].pc = "ck"
    /\ LET rest == Tail(req[r].ckQueue)
       IN  \/ req' = [req EXCEPT ![r] =
                  IF rest = <<>>
                  THEN respond([req[r] EXCEPT !.ckQueue = rest], 200)
                  ELSE [req[r] EXCEPT !.ckQueue = rest, !.calls.ck = @ + 1]]
           \/ req' = [req EXCEPT ![r] = respond(req[r], 500)]
    /\ UNCHANGED <<impl, env, crm, started>>
    /\ UNCHANGED stageVars

\* a ConvertKit fetch settles (a throw is caught and logged), and the next
\* one goes out
CkReturn(r) ==
    /\ req[r].pc = "ck"
    /\ LET rest == Tail(req[r].ckQueue)
       IN  req' = [req EXCEPT ![r] =
               IF rest = <<>>
               THEN respond([req[r] EXCEPT !.ckQueue = rest], 200)
               ELSE [req[r] EXCEPT !.ckQueue = rest, !.calls.ck = @ + 1]]
    /\ UNCHANGED <<impl, env, crm, started>>
    /\ UNCHANGED stageVars

Next ==
    \E r \in Reqs :
        \/ Receive(r)
        \/ RetrieveReturn(r)
        \/ LookupReturn(r)
        \/ PostReturn(r)
        \/ CkReturn(r)

Spec == Init /\ [][Next]_vars

\* an awaited call of some delivery settles
Settle ==
    \E r \in Reqs :
        \/ RetrieveReturn(r)
        \/ LookupReturn(r)
        \/ PostReturn(r)
        \/ CkReturn(r)

\* one event for each way through the handler: a checkout with and without
\* an email, an invoice and a subscription update whose email is on the
\* customer, a cancellation without a customer, and an unhandled type
LiveEvents ==
    {e \in Checkouts : e.name \in {"Jane Doe", ""}}
    \cup {Obj(INV_OK, "in_1", "", "", "sub_1", "cus_1", ""),
          Obj(SUB_UPDATED, "sub_1", "", "", "", "cus_1", "active"),
          Obj(SUB_DELETED, "sub_1", "", "", "", "", "canceled"),
          Obj(SUB_CREATED, "sub_1", "", "", "", "cus_1", "trialing")}

LiveNext ==
    \E r \in Reqs :
        \/ ReceiveFrom(r, LiveEvents)
        \/ RetrieveReturn(r)
        \/ LookupReturn(r)
        \/ PostReturn(r)
        \/ CkReturn(r)

\* the process with the CRM and ConvertKit configured and the contact of
\* EmailA present
LiveInit ==
    /\ Init
    /\ trim(env.GHL_V1_API_KEY) # "" /\ trim(env.GHL_LOCATION_ID) # ""
    /\ crm[EmailA].tags = <<"done:fc:trial_checkout">>

\* every external call eventually returns or throws: while calls are
\* pending, one of them settles
LiveSpec == LiveInit /\ [][LiveNext]_vars /\ WF_vars(Settle)

\* ------------------------------------------------ resolveV1StageIdByName
\* s => (s || "").toLowerCase() === (stageName || "").toLowerCase()
matchName(s, stageName) == toLowerCase(s) = toLowerCase(stageName)

\* Array.prototype.find: the first element of arr that satisfies the
\* callback (matching is the set of the elements that do), or none
find(arr, matching, none) ==
    IF \E i \in 1..Len(arr) : arr[i] \in matching
    THEN arr[CHOOSE i \in 1..Len(arr) :
                 /\ arr[i] \in matching
                 /\ \A j \in 1..(i - 1) : arr[j] \notin matching]
    ELSE none

\* the fetch of the next probe goes out
probe(q, pc, name) == [q EXCEPT !.pc = pc, !.probes = Append(@, name)]

\* _stageIdCache.set(key, id); return id
resolved(c, id, src, rec) ==
    /\ _stageIdCache' = [_stageIdCache EXCEPT ![call[c].key] =
                             [has |-> TRUE, value |-> id]]
    /\ call' = [call EXCEPT ![c] =
                   [@ EXCEPT !.pc = "returned", !.ret = id, !.source = src,
                             !.hit = rec]]

\* the probe yielded nothing: on to the next one
nextProbe(c, pc, name) ==
    /\ call' = [call EXCEPT ![c] = probe(@, pc, name)]
    /\ UNCHANGED _stageIdCache

\* resolveV1StageIdByName({pipelineId, stageName}) up to its first await:
\* the cache answers, or the configuration is missing, or the first probe
\* goes out
resolveV1StageIdByName(p, n) ==
    LET key == cacheKey(p, n)
        q   == [NoCall EXCEPT !.pipelineId = p, !.stageName = n,
                              !.key = key, !.atStart = _stageIdCache[key]]
    IN  IF _stageIdCache[key].has
        THEN [q EXCEPT !.pc = "returned", !.source = "cache",
                       !.ret = _stageIdCache[key].value]
        ELSE IF trim(env.GHL_V1_API_KEY) = "" \/ trim(env.GHL_LOCATION_ID) = ""
        THEN [q EXCEPT !.pc = "thrown"]
        ELSE probe(q, "try1", "filtered")

\* Resolve that does not look into the cache
Resolve_ignoresCache(c) ==
    /\ call[c].pc = "idle"
    /\ \A d \in Calls : d < c => call[d].pc # "idle"
    /\ \E p \in PipelineIds, n \in StageNames :
        LET key == cacheKey(p, n)
            q   == [NoCall EXCEPT !.pipelineId = p, !.stageName = n,
                                  !.key = key, !.atStart = _stageIdCache[key]]
        IN  call' = [call EXCEPT ![c] =
                IF trim(env.GHL_V1_API_KEY) = ""
                   \/ trim(env.GHL_LOCATION_ID) = ""
                THEN [q EXCEPT !.pc = "thrown"]
                ELSE probe(q, "try1", "filtered")]
    /\ UNCHANGED <<impl, env, crm, started, req, _stageIdCache, opportunities>>

\* resolveV1StageIdByName is called with some arguments
Resolve(c) ==
    /\ call[c].pc = "idle"
    /\ \A d \in Calls : d < c => call[d].pc # "idle"
    /\ \E p \in PipelineIds, n \in StageNames :
        call' = [call EXCEPT ![c] = resolveV1StageIdByName(p, n)]
    /\ UNCHANGED <<impl, env, crm, started, req, _stageIdCache, opportunities>>

\* Try 1 settles: GET /v1/opportunities/?pipelineId=...&limit=100, which
\* lists the opportunities of that pipeline
Try1Return(c) ==
    /\ call[c].pc = "try1"
    /\ \E resp \in OppResponses :
        LET opps == SelectSeq(resp.items,
                        LAMBDA o : o.pipelineId = call[c].pipelineId)
            hit == find(opps,
                        {o \in Range(opps) :
                            matchName(o.stageName, call[c].stageName)},
                        NoOpp)
        IN  IF resp.kind = "ok" /\ hit.stageId # ""
            THEN resolved(c, hit.stageId, "filtered", hit)
            ELSE nextProbe(c, "try2", "unfiltered")
    /\ UNCHANGED <<impl, env, crm, started, req, opportunities>>

\* Try 2 settles: GET /v1/opportunities/?limit=100, filtered client-side
Try2Return(c) ==
    /\ call[c].pc = "try2"
    /\ \E resp \in OppResponses :
        LET both == find(resp.items,
                         {o \in Range(resp.items) :
                             /\ o.pipelineId = call[c].pipelineId
                             /\ matchName(o.stageName, call[c].stageName)},
                         NoOpp)
            hit2 == IF both # NoOpp THEN both
                    ELSE find(resp.items,
                              {o \in Range(resp.items) :
                                  matchName(o.stageName, call[c].stageName)},
                              NoOpp)
        IN  IF resp.kind = "ok" /\ hit2.stageId # ""
            THEN resolved(c, hit2.stageId, "unfiltered", hit2)
            ELSE nextProbe(c, "try3", "pipeline")
    /\ UNCHANGED <<impl, env, crm, started, req, opportunities>>

\* Try 3 settles: GET /v1/pipelines/{pipelineId}; when it yields nothing
\* either, the call throws
Try3Return(c) ==
    /\ call[c].pc = "try3"
    /\ \E resp \in StageResponses :
        LET st == find(resp.items,
                       {x \in Range(resp.items) :
                           matchName(x.name, call[c].stageName)},
                       NoStage)
        IN  IF resp.kind = "ok" /\ st.id # ""
            THEN resolved(c, st.id, "pipeline",
                          Opp(call[c].pipelineId, st.name, st.id))
            ELSE /\ call' = [call EXCEPT ![c].pc = "thrown"]
                 /\ UNCHANGED _stageIdCache
    /\ UNCHANGED <<impl, env, crm, started, req, opportunities>>

\* the process of src/server.js with no webhook delivery under way
StageInit ==
    /\ impl = SERVER_JS
    /\ env \in EnvConfigs
    /\ crm = NoCrm
    /\ started = 0
    /\ req = [r \in Reqs |-> Fresh]
    /\ _stageIdCache = EmptyCache
    /\ call = [c \in Calls |-> NoCall]
    /\ opportunities = <<>>

StageNext ==
    \E c \in Calls :
        \/ Resolve(c)
        \/ Try1Return(c)
        \/ Try2Return(c)
        \/ Try3Return(c)

StageSpec == StageInit /\ [][StageNext]_vars

\* ------------------------------- src/server.js: POST /api/stripe/webhook
\* process.env of src/server.js, and whether Firestore was initialised (db)
ServerEnvConfigs ==
    {[GHL_V1_API_KEY |-> "k", GHL_LOCATION_ID |-> "loc",
      GHL_PIPELINE_ID |-> "p1", GHL_TRIAL_STAGE_NAME |-> "",
      GHL_TRIAL_STAGE_ID_V1 |-> "",
      CONVERTKIT_API_KEY |-> "", CONVERTKIT_FORM_ID |-> "f1",
      CONVERTKIT_TAG_IDS |-> "", db |-> TRUE],
     [GHL_V1_API_KEY |-> "k", GHL_LOCATION_ID |-> "loc",
      GHL_PIPELINE_ID |-> "p1", GHL_TRIAL_STAGE_NAME |-> "Trial ",
      GHL_TRIAL_STAGE_ID_V1 |-> " st_7 ",
      CONVERTKIT_API_KEY |-> "ck", CONVERTKIT_FORM_ID |-> "f1",
      CONVERTKIT_TAG_IDS |-> "", db |-> FALSE],
     [GHL_V1_API_KEY |-> "", GHL_LOCATION_ID |-> "loc",
      GHL_PIPELINE_ID |-> "p1", GHL_TRIAL_STAGE_NAME |-> "",
      GHL_TRIAL_STAGE_ID_V1 |-> "",
      CONVERTKIT_API_KEY |-> "ck", CONVERTKIT_FORM_ID |-> "",
      CONVERTKIT_TAG_IDS |-> "7", db |-> TRUE]}

\* one checkout session with and without a subscription, subscription
\* events with and without a customer, an invoice, an unhandled type
ServerEvents ==
    {[Obj(CHECKOUT, "cs_1", EmailA, "", sub, "cus_1", "")
          EXCEPT !.name = "Jane Doe"] : sub \in {"sub_1", ""}}
    \cup {Obj(SUB_UPDATED, "sub_1", "", "", "", "cus_1", "active"),
          Obj(SUB_DELETED, "sub_1", "", "", "", "", "canceled"),
          Obj(INV_OK, "in_1", "", EmailA, "sub_1", "cus_1", ""),
          Obj(INV_PAID, "in_1", "", EmailA, "sub_1", "cus_1", "paid")}

\* req[r] under src/server.js. pc: "idle", "contact" (awaiting the POST of
\* the contact), "resolve" (awaiting resolveV1StageIdByName), "opp"
\* (awaiting the POST of the opportunity), "ck" (awaiting a ConvertKit
\* fetch), "sub" (awaiting stripe.subscriptions.retrieve), "status"
\* (awaiting setStripeStatus), "attach" (awaiting attachToUserIfExists),
\* "done". upsert, resolve, opp and later record how the contact POST, the
\* stage resolution, the opportunity POST and the steps after ConvertKit
\* went, and before the deliveries answered when this one arrived, for the
\* properties.
NoJob ==
    [pc |-> "idle", event |-> NoEvent, status |-> 0, sig |-> "",
     contactId |-> "", v1StageId |-> "", ckQueue |-> <<>>,
     upsert |-> "", resolve |-> "", opp |-> "", later |-> "",
     before |-> {}]

\* (process.env.GHL_TRIAL_STAGE_NAME || "Trial").trim()
desiredStageName ==
    trim(IF env.GHL_TRIAL_STAGE_NAME = "" THEN "Trial"
         ELSE env.GHL_TRIAL_STAGE_NAME)

\* setStripeStatus, then attachToUserIfExists (and, for a subscription
\* event, the no-op moveGhlStageForStatus): both return at once without db
\* or customerId
setStripeStatus(q) ==
    IF ~env.db \/ q.event.customer = ""
    THEN respond(q, 200)
    ELSE [q EXCEPT !.pc = "status"]

\* the checkout case after convertKitSubscribe
mirrorSubscription(q) ==
    IF q.event.subscription # ""
    THEN [q EXCEPT !.pc = "sub"]
    ELSE setStripeStatus(q)

\* convertKitSubscribe of src/server.js up to its first fetch
serverConvertKitSubscribe(q) ==
    LET tagIds == trimFilter(splitComma(env.CONVERTKIT_TAG_IDS))
        queue  == (IF env.CONVERTKIT_FORM_ID # "" THEN <<"form">> ELSE <<>>)
                  \o [i \in 1..Len(tagIds) |-> "tag:" \o tagIds[i]]
    IN  IF env.CONVERTKIT_API_KEY = "" \/ queue = <<>>
        THEN mirrorSubscription(q)
        ELSE [q EXCEPT !.pc = "ck", !.ckQueue = queue]

\* upsertGhlContactAndTrialOpp from line 707 on: the POST of the
\* opportunity goes out when contactId, pipelineId and v1StageId are all
\* there
createOpportunity(q) ==
    IF q.contactId # "" /\ env.GHL_PIPELINE_ID # "" /\ q.v1StageId # ""
    THEN [q EXCEPT !.pc = "opp"]
    ELSE serverConvertKitSubscribe([q EXCEPT !.opp = "skipped"])

\* a delivery arrives: signature check and the switch up to its first await
ServerReceive(r) ==
    /\ req[r].pc = "idle"
    /\ r = started + 1
    /\ \E ev \in ServerEvents : \E sig \in SigsFor(ev) :
        LET q == [NoJob EXCEPT !.sig = sigKind(ev, sig), !.before = Done]
            e == [q EXCEPT !.event = ev]
        IN  req' = [req EXCEPT ![r] =
                IF ~constructEventOk(ev, sig)
                THEN respond(q, 400)
                ELSE IF ev.type = CHECKOUT
                THEN IF env.GHL_V1_API_KEY = "" \/ env.GHL_LOCATION_ID = ""
                     THEN serverConvertKitSubscribe(
                              [e EXCEPT !.upsert = "skipped"])
                     ELSE [e EXCEPT !.pc = "contact"]
                ELSE IF ev.type \in {SUB_CREATED, SUB_UPDATED, SUB_DELETED}
                THEN setStripeStatus(e)
                ELSE respond(e, 200)]
    /\ started' = started + 1
    /\ UNCHANGED <<impl, env, crm, _stageIdCache, call, opportunities>>

\* the POST /v1/contacts/ settles: it throws (no opportunity without a
\* contact), or answers with or without a contact id in the body; then
\* the stage id comes from GHL_TRIAL_STAGE_ID_V1 or from the resolver
UpsertContactReturn(r) ==
    /\ req[r].pc = "contact"
    /\ \E outcome \in {"throw", "id", "noid"} :
        LET q    == [req[r] EXCEPT !.upsert = outcome,
                         !.contactId = IF outcome = "id" THEN "c_1" ELSE ""]
            hard == trim(env.GHL_TRIAL_STAGE_ID_V1)
        IN  IF outcome = "throw"
            THEN /\ req' = [req EXCEPT ![r] = serverConvertKitSubscribe(q)]
                 /\ UNCHANGED call
            ELSE IF hard # ""
            THEN /\ req' = [req EXCEPT ![r] = createOpportunity(
                                [q EXCEPT !.v1StageId = hard,
                                          !.resolve = "env"])]
                 /\ UNCHANGED call
            ELSE /\ req' = [req EXCEPT ![r] = [q EXCEPT !.pc = "resolve"]]
                 /\ call' = [call EXCEPT ![r] =
                                resolveV1StageIdByName(env.GHL_PIPELINE_ID,
                                                       desiredStageName)]
    /\ UNCHANGED <<impl, env, crm, started, _stageIdCache, opportunities>>

\* StageResolved without the try/catch of lines 702-706: the rejection of
\* the resolver reaches the catch of the handler
StageResolved_throwPropagates(r) ==
    /\ req[r].pc = "resolve"
    /\ call[r].pc \in {"returned", "thrown"}
    /\ req' = [req EXCEPT ![r] =
                  IF call[r].pc = "thrown"
                  THEN respond([@ EXCEPT !.resolve = "thrown"], 500)
                  ELSE createOpportunity(
                           [@ EXCEPT !.resolve = "returned",
                                     !.v1StageId = call[r].ret])]
    /\ UNCHANGED <<impl, env, crm, started, _stageIdCache, call, opportunities>>

\* the awaited resolveV1StageIdByName has returned an id or thrown; a
\* throw is caught and leaves v1StageId empty
StageResolved(r) ==
    /\ req[r].pc = "resolve"
    /\ call[r].pc \in {"returned", "thrown"}
    /\ req' = [req EXCEPT ![r] =
                  createOpportunity(
                      [@ EXCEPT !.resolve = call[r].pc,
                                !.v1StageId = IF call[r].pc = "returned"
                                              THEN call[r].ret ELSE ""])]
    /\ UNCHANGED <<impl, env, crm, started, _stageIdCache, call, opportunities>>

\* the POST /v1/opportunities/ settles: the CRM creates the opportunity,
\* or answers non-OK, or the fetch throws; the last two are only logged
CreateOpportunityReturn(r) ==
    /\ req[r].pc = "opp"
    /\ \E outcome \in {"created", "notok", "throw"} :
        /\ req' = [req EXCEPT ![r] =
                      serverConvertKitSubscribe([@ EXCEPT !.opp = outcome])]
        /\ opportunities' =
               IF outcome = "created"
               THEN Append(opportunities,
                           [session    |-> req[r].event.id,
                            contactId  |-> req[r].contactId,
                            pipelineId |-> env.GHL_PIPELINE_ID,
                            stageId    |-> req[r].v1StageId])
               ELSE opportunities
    /\ UNCHANGED <<impl, env, crm, started, _stageIdCache, call>>

\* a ConvertKit fetch settles; a throw is caught, so either way the next
\* fetch goes out, and after the last one the handler goes on
ConvertKitReturn(r) ==
    /\ req[r].pc = "ck"
    /\ req' = [req EXCEPT ![r] =
                  IF Len(@.ckQueue) > 1
                  THEN [@ EXCEPT !.ckQueue = Tail(@)]
                  ELSE mirrorSubscription([@ EXCEPT !.ckQueue = <<>>])]
    /\ UNCHANGED <<impl, env, crm, started, _stageIdCache, call, opportunities>>

\* stripe.subscriptions.retrieve settles; a throw reaches the catch of the
\* handler
SubscriptionRetrieveReturn(r) ==
    /\ req[r].pc = "sub"
    /\ \/ req' = [req EXCEPT ![r] = respond([@ EXCEPT !.later = "throw"], 500)]
       \/ req' = [req EXCEPT ![r] = setStripeStatus(@)]
    /\ UNCHANGED <<impl, env, crm, started, _stageIdCache, call, opportunities>>

\* the Firestore write of setStripeStatus settles
SetStripeStatusReturn(r) ==
    /\ req[r].pc = "status"
    /\ \/ req' = [req EXCEPT ![r] = respond([@ EXCEPT !.later = "throw"], 500)]
       \/ req' = [req EXCEPT ![r] = [@ EXCEPT !.pc = "attach"]]
    /\ UNCHANGED <<impl, env, crm, started, _stageIdCache, call, opportunities>>

\* attachToUserIfExists settles: its query or its write throws, or it
\* returns
AttachReturn(r) ==
    /\ req[r].pc = "attach"
    /\ \/ req' = [req EXCEPT ![r] = respond([@ EXCEPT !.later = "throw"], 500)]
       \/ req' = [req EXCEPT ![r] = respond(@, 200)]
    /\ UNCHANGED <<impl, env, crm, started, _stageIdCache, call, opportunities>>

ServerInit ==
    /\ impl = SERVER_JS
    /\ env \in ServerEnvConfigs
    /\ crm = NoCrm
    /\ started = 0
    /\ req = [r \in Reqs |-> NoJob]
    /\ _stageIdCache = EmptyCache
    /\ call = [c \in Calls |-> NoCall]
    /\ opportunities = <<>>

ServerNext ==
    \E r \in Reqs :
        \/ ServerReceive(r)
        \/ UpsertContactReturn(r)
        \/ Try1Return(r)
        \/ Try2Return(r)
        \/ Try3Return(r)
        \/ StageResolved(r)
        \/ CreateOpportunityReturn(r)
        \/ ConvertKitReturn(r)
        \/ SubscriptionRetrieveReturn(r)
        \/ SetStripeStatusReturn(r)
        \/ AttachReturn(r)

ServerSpec == ServerInit /\ [][ServerNext]_vars

\* ------------------------------------------ src/server.js: POST / (chat)
\* String.prototype.trim on a text with line breaks
RECURSIVE trimWhitespace(_)
trimWhitespace(s) ==
    IF Len(s) > 0 /\ Head(s) \in Whitespace
    THEN trimWhitespace(SubSeq(s, 2, Len(s)))
    ELSE IF Len(s) > 0 /\ SubSeq(s, Len(s), Len(s)) \in Whitespace
    THEN trimWhitespace(SubSeq(s, 1, Len(s) - 1))
    ELSE s

\* JavaScript values a flavor profile can be: undefined, null, or an
\* object with some of the ten fields ("" is an absent field)
Profile(type, name, fitnessGoal, likes) ==
    [type |-> type, name |-> name, fitnessGoal |-> fitnessGoal,
     calories |-> "", protein |-> "", carbs |-> "", fat |-> "",
     culinaryGoal |-> "", likes |-> likes, dislikes |-> "",
     restrictions |-> ""]
Undefined == Profile("undefined", "", "", "")
Null == Profile("null", "", "", "")
EmptyObject == Profile("object", "", "", "")
StoredProfiles == {Profile("object", "Ana", "fat loss", "thai"), EmptyObject}

\* format = (label, value) => value ? `- ${label}: ${value}` : ""
format(label, value) ==
    IF value # "" THEN "- " \o label \o ": " \o value ELSE ""

\* the text of the template before and after ${personalization}
PromptHead == "ROLE & PURPOSE\nYou are an AI version of Ben Johnson.\n\n"
PromptRest == "\n\nAlways use the user's Flavor Profile to tailor your advice."

\* buildSystemPrompt(flavorProfile = {}): the default applies to undefined
\* only; reading a property of null throws a TypeError
buildSystemPrompt(flavorProfile) ==
    LET fp == IF flavorProfile.type = "undefined" THEN EmptyObject
              ELSE flavorProfile
        personalization == trimWhitespace(
            "\nUSER FLAVOR PROFILE\n"
            \o format("Name", fp.name) \o "\n"
            \o format("Fitness Goal", fp.fitnessGoal) \o "\n"
            \o format("Calories", fp.calories) \o "\n"
            \o format("Protein", fp.protein) \o "\n"
            \o format("Carbs", fp.carbs) \o "\n"
            \o format("Fat", fp.fat) \o "\n"
            \o format("Culinary Goal", fp.culinaryGoal) \o "\n"
            \o format("Likes", fp.likes) \o "\n"
            \o format("Dislikes", fp.dislikes) \o "\n"
            \o format("Dietary Preferences", fp.restrictions) \o "\n")
    IN  IF fp.type = "null"
        THEN [threw |-> TRUE, content |-> ""]
        ELSE [threw |-> FALSE,
              content |-> PromptHead \o personalization \o PromptRest]

\* req.body.messages and req.body.uid
Value(type, value) == [type |-> type, value |-> value]
Absent == Value("undefined", "")
MessagesInputs ==
    {Absent, Value("string", "hi"), Value("array", <<>>),
     Value("array", <<"What goes with basil?">>)}
UidInputs ==
    {Absent, Value("string", ""), Value("string", "  "),
     Value("number", "7"), Value("string", "u1")}

\* what db.collection("users").doc(uid).get() can give: it throws, or a
\* snapshot of a document that does not exist, or of one with or without a
\* flavorProfile
UserDocs ==
    {[exists |-> FALSE, flavorProfile |-> Undefined],
     [exists |-> TRUE, flavorProfile |-> Undefined],
     [exists |-> TRUE, flavorProfile |-> Null]}
    \cup {[exists |-> TRUE, flavorProfile |-> p] : p \in StoredProfiles}

Replies == {"Try it with tomatoes."}

NoBody == [success |-> FALSE, reply |-> "", error |-> ""]

\* req[r] under the chat route. pc: "idle", "profile" (awaiting the
\* Firestore read), "openai" (awaiting the completion), "done". load and
\* completion record how the read and the completion went, for the
\* properties.
NoChat ==
    [pc |-> "idle", messages |-> Absent, uid |-> Absent,
     flavorProfile |-> Null, prompt |-> "", status |-> 0, body |-> NoBody,
     load |-> "", completion |-> ""]

\* res.status(code).json(body)
respondJson(q, code, body) ==
    [q EXCEPT !.pc = "done", !.status = code, !.body = body]

\* the second try block up to its await: the argument of
\* openai.chat.completions.create is built first, and a throw in it
\* reaches the catch
createCompletion(q) ==
    LET sp == buildSystemPrompt(q.flavorProfile)
    IN  IF sp.threw
        THEN respondJson(q, 500, [NoBody EXCEPT
                 !.error = "Error processing your request."])
        ELSE [q EXCEPT !.pc = "openai", !.prompt = sp.content]

\* POST / arrives: the messages check, then the profile read when uid is a
\* non-blank string
ChatReceive(r) ==
    /\ req[r].pc = "idle"
    /\ r = started + 1
    /\ \E messages \in MessagesInputs, uid \in UidInputs :
        LET q == [NoChat EXCEPT !.messages = messages, !.uid = uid]
        IN  req' = [req EXCEPT ![r] =
                IF messages.type # "array"
                THEN respondJson(q, 400, [NoBody EXCEPT
                         !.error = "Messages array is required"])
                ELSE IF uid.type = "string" /\ trimWhitespace(uid.value) # ""
                THEN [q EXCEPT !.pc = "profile"]
                ELSE createCompletion([q EXCEPT !.load = "skipped"])]
    /\ started' = started + 1
    /\ UNCHANGED <<impl, env, crm, _stageIdCache, call, opportunities>>

\* the Firestore read settles: a throw is caught and logged; of a
\* document that exists, data()?.flavorProfile || null is kept
ProfileReturn(r) ==
    /\ req[r].pc = "profile"
    /\ \/ req' = [req EXCEPT ![r] =
                     createCompletion([@ EXCEPT !.load = "throw"])]
       \/ \E userDoc \in UserDocs :
            req' = [req EXCEPT ![r] =
                IF ~userDoc.exists
                THEN createCompletion([@ EXCEPT !.load = "missing"])
                ELSE IF userDoc.flavorProfile.type # "object"
                THEN createCompletion([@ EXCEPT !.load = "noprofile"])
                ELSE createCompletion(
                         [@ EXCEPT !.load = "loaded",
                                   !.flavorProfile = userDoc.flavorProfile])]
    /\ UNCHANGED <<impl, env, crm, started, _stageIdCache, call, opportunities>>

\* openai.chat.completions.create settles
CompletionReturn(r) ==
    /\ req[r].pc = "openai"
    /\ \/ \E reply \in Replies :
            req' = [req EXCEPT ![r] =
                respondJson([@ EXCEPT !.completion = "ok"], 200,
                            [NoBody EXCEPT !.success = TRUE,
                                           !.reply = reply])]
       \/ req' = [req EXCEPT ![r] =
                respondJson([@ EXCEPT !.completion = "throw"], 500,
                            [NoBody EXCEPT
                                !.error = "Error processing your request."])]
    /\ UNCHANGED <<impl, env, crm, started, _stageIdCache, call, opportunities>>

ChatInit ==
    /\ impl = SERVER_JS
    /\ env \in ServerEnvConfigs
    /\ crm = NoCrm
    /\ started = 0
    /\ req = [r \in Reqs |-> NoChat]
    /\ _stageIdCache = EmptyCache
    /\ call = [c \in Calls |-> NoCall]
    /\ opportunities = <<>>

ChatNext ==
    \E r \in Reqs :
        \/ ChatReceive(r)
        \/ ProfileReturn(r)
        \/ CompletionReturn(r)

ChatSpec == ChatInit /\ [][ChatNext]_vars

\* ------------------------------------------------------------ properties
TagSet(arr) == Range(arr)

\* the delivery has issued the POST of ghlV1UpsertContact
Wrote(r) == req[r].calls.post > 0

Verified(r) == req[r].sig = "valid"

\* C1: every CRM contact write issued for a billing event carries a tag set
\* that contains the tags the contact had in the CRM when the event arrived
\* and the new tags computed for the event, whatever the event type, the
\* prior tags, the outcome of the lookup and the implementation mounted.
C1_WriteKeepsPriorAndNewTags ==
    \A r \in Reqs :
        Wrote(r) =>
            (TagSet(req[r].pre[req[r].email].tags) \cup TagSet(req[r].tags))
                \subseteq TagSet(req[r].mergedTags)

\* C2: in the merging ghlV1UpsertContact, when the lookup returned a contact
\* with tags X and the event computed tags Y, the tags of the payload are
\* X union Y as a set: every tag trimmed, no empty string, no tag twice, and
\* no tag of X missing.
C2_PayloadIsUnion ==
    \A r \in Reqs :
        (impl = PART_003 /\ Wrote(r) /\ req[r].lookup \in {"hit", "other"}) =>
            LET X == TagSet(trimFilter(req[r].existingTags))
                Y == TagSet(trimFilter(req[r].tags))
                P == req[r].mergedTags
            IN  /\ TagSet(P) = X \cup Y
                /\ \A i, j \in 1..Len(P) : i # j => P[i] # P[j]
                /\ \A i \in 1..Len(P) : P[i] # "" /\ trim(P[i]) = P[i]
                /\ (X \ Y # {} => TagSet(P) # Y)

\* C2 witness: existing {A, B} and new {B, C} give a payload {A, B, C}
C2_Witness ==
    \E r \in Reqs :
        LET X == TagSet(trimFilter(req[r].existingTags))
            Y == TagSet(req[r].tags)
        IN  /\ impl = PART_003
            /\ req[r].pc = "post"
            /\ req[r].lookup = "hit"
            /\ X \cap Y # {}
            /\ X \ Y # {}
            /\ Y \ X # {}
            /\ TagSet(req[r].mergedTags) = X \cup Y

\* C3: a request whose signature check fails (header missing, wrong secret,
\* body tampered with) is answered 400 and makes no external call at all.
C3_BadSignatureRejected ==
    \A r \in Reqs :
        req[r].sig \in {"missing", "wrong_secret", "tampered"} =>
            /\ req[r].pc = "done"
            /\ req[r].status = 400
            /\ req[r].calls = NoCalls

C3_Witness ==
    \E r \in Reqs :
        /\ req[r].sig = "tampered"
        /\ req[r].pc = "done"
        /\ req[r].status = 400

\* C4: whatever goes wrong with the CRM upsert call, a non-2xx response or a
\* thrown fetch, the handler still answers 200.
C4_UpsertErrorsSwallowed ==
    \A r \in Reqs :
        (impl = PART_003 /\ req[r].pc = "done"
         /\ req[r].result \in {"notok", "throw"}) =>
            req[r].status = 200

\* r2 is a second delivery of the event of r1, received after r1 was
\* answered, with no other delivery at work from the arrival of r1 on
Redelivery(r1, r2) ==
    /\ r1 \in req[r2].before
    /\ Verified(r1) /\ Verified(r2)
    /\ req[r1].event = req[r2].event
    /\ \A q \in Reqs \ {r1, r2} : req[q].pc = "idle" \/ q \in req[r1].before

\* C5: delivering a valid event twice in succession leaves the tags of
\* every contact as they were after the first delivery.  (Stated for two
\* deliveries that were both answered 200, got the same answer from the
\* billing provider, had their CRM write, if any, accepted, and whose
\* lookups did not return the record of another contact.)
C5_RedeliveryIdempotent ==
    \A r1, r2 \in Reqs :
        (/\ Redelivery(r1, r2)
         /\ req[r2].pc = "done"
         /\ req[r1].status = 200 /\ req[r2].status = 200
         /\ req[r1].retrieve = req[r2].retrieve
         /\ req[r1].result \in {"", "ok"}
         /\ req[r1].result = req[r2].result
         /\ req[r1].lookup # "other" /\ req[r2].lookup # "other") =>
            \A e \in Emails : TagSet(crm[e].tags) = TagSet(req[r2].pre[e].tags)

\* no email can be resolved for the event of r: absent on the session or
\* invoice, no customer reference, or a customer record without email
NoEmail(r) ==
    LET o == req[r].event
    IN  CASE o.type = CHECKOUT -> o.cd_email = "" /\ o.customer_email = ""
          [] o.type \in {INV_OK, INV_FAILED} -> o.customer_email = ""
          [] o.type \in {SUB_DELETED, SUB_UPDATED} ->
                o.customer = "" \/ req[r].retrieve = "noemail"
          [] OTHER -> FALSE

\* C6: a verified event of a handled type for which no email can be
\* resolved causes no CRM lookup and no CRM write, and is answered 200.
C6_NoEmailNoCrmCall ==
    \A r \in Reqs :
        (Verified(r) /\ req[r].event.type \in HandledTypes /\ NoEmail(r)) =>
            /\ req[r].calls.get = 0
            /\ req[r].calls.post = 0
            /\ req[r].pc = "done"
            /\ req[r].status = 200

\* C6 witness: a subscription whose customer record has no email
C6_Witness ==
    \E r \in Reqs :
        /\ Verified(r)
        /\ req[r].event.type = SUB_DELETED
        /\ req[r].retrieve = "noemail"
        /\ req[r].calls.stripe = 1
        /\ req[r].calls.post = 0
        /\ req[r].status = 200

\* C7: when the lookup by email throws, gets a non-OK response or finds no
\* contact, the POST is still issued, exactly once, with the event's new
\* tags and nothing else; and whatever the lookup's outcome, once it has
\* settled the POST has been issued.
C7_LookupFailureStillUpserts ==
    \A r \in Reqs :
        impl = PART_003 =>
            /\ req[r].lookup \in {"throw", "notok", "empty"} =>
                /\ req[r].calls.post = 1
                /\ TagSet(req[r].mergedTags) = TagSet(req[r].tags)
                /\ Len(req[r].mergedTags) = Cardinality(TagSet(req[r].tags))
            /\ (req[r].calls.get = 1 /\ req[r].pc # "lookup") =>
                /\ req[r].lookup # ""
                /\ req[r].calls.post = 1

\* C7 witness: the contact has tags, the lookup throws, the POST is out
C7_Witness ==
    \E r \in Reqs :
        /\ impl = PART_003
        /\ req[r].lookup = "throw"
        /\ req[r].pc = "post"
        /\ crm[req[r].email].tags # <<>>
        /\ req[r].calls.post = 1
        /\ req[r].mergedTags = req[r].tags

Concurrent(r1, r2) ==
    /\ req[r1].pc # "idle" /\ req[r2].pc # "idle"
    /\ r1 \notin req[r2].before
    /\ r2 \notin req[r1].before

\* C8: when two deliveries for one contact have both read the same tags
\* of the contact, the payload of each holds the tags it read and its own
\* new tags only: none of the tags that only the other delivery adds.  The
\* write that lands second therefore removes them (see the witness).
C8_StalePayload ==
    \A r1, r2 \in Reqs :
        (/\ r1 # r2
         /\ impl = PART_003
         /\ Wrote(r1) /\ Wrote(r2)
         /\ req[r1].email = req[r2].email
         /\ req[r1].lookup = "hit" /\ req[r2].lookup = "hit"
         /\ req[r1].existingTags = req[r2].existingTags) =>
            LET seen  == TagSet(trimFilter(req[r2].existingTags))
                added == TagSet(req[r1].tags) \ (seen \cup TagSet(req[r2].tags))
            IN  added \cap TagSet(req[r2].mergedTags) = {}

\* C8 witness: a lost update.  Two concurrent deliveries, both lookups
\* returned the contact, both writes succeeded, and the contact ends up
\* with the payload of r2, without the tags of the event of r1.
C8_Witness ==
    \E r1, r2 \in Reqs :
        /\ r1 # r2
        /\ impl = PART_003
        /\ Concurrent(r1, r2)
        /\ req[r1].pc = "done" /\ req[r2].pc = "done"
        /\ req[r1].email = req[r2].email
        /\ req[r1].lookup = "hit" /\ req[r2].lookup = "hit"
        /\ req[r1].result = "ok" /\ req[r2].result = "ok"
        /\ crm[req[r2].email].tags = req[r2].mergedTags
        /\ ~(TagSet(req[r1].tags) \subseteq TagSet(crm[req[r1].email].tags))

\* the tags the dispatch table gives an event
ExpectedTags(o) ==
    CASE o.type = "checkout.session.completed" ->
            {"fc:trial_checkout", "evt:cs_" \o o.id}
      [] o.type = "invoice.payment_succeeded" ->
            {"fc:payment_succeeded", "evt:in_" \o o.id}
            \cup (IF o.subscription # "" THEN {"evt:sub_" \o o.subscription}
                  ELSE {})
      [] o.type = "invoice.payment_failed" ->
            {"fc:payment_failed", "evt:in_" \o o.id}
            \cup (IF o.subscription # "" THEN {"evt:sub_" \o o.subscription}
                  ELSE {})
      [] o.type = "customer.subscription.deleted" ->
            {"fc:sub_canceled", "evt:sub_" \o o.id}
      [] o.type = "customer.subscription.updated" /\ o.status = "active" ->
            {"fc:payment_succeeded", "fc:sub_active", "evt:sub_" \o o.id}
      [] OTHER -> {}

IsStable(t) == Len(t) >= 3 /\ SubSeq(t, 1, 3) = "fc:"

\* C9: the new tags computed for an event are those of the dispatch table
\* (the subscription event tag on an invoice exactly when the invoice
\* carries a subscription id), an event outside the table gets no tags, and
\* no stable tag other than the five of the table is ever computed.
C9_DispatchTable ==
    \A r \in Reqs :
        /\ req[r].email # "" => TagSet(req[r].tags) = ExpectedTags(req[r].event)
        /\ req[r].email # "" => Len(req[r].tags) = Cardinality(TagSet(req[r].tags))
        /\ ExpectedTags(req[r].event) = {} => req[r].tags = <<>>
        /\ \A t \in TagSet(req[r].tags) :
              IsStable(t) =>
                  t \in {"fc:trial_checkout", "fc:payment_succeeded",
                         "fc:sub_active", "fc:payment_failed",
                         "fc:sub_canceled"}

\* C9 witness: invoice.payment_failed, invoice in_1, subscription sub_1
C9_Witness ==
    \E r \in Reqs :
        /\ req[r].event.type = INV_FAILED
        /\ req[r].event.subscription = "sub_1"
        /\ Wrote(r)
        /\ req[r].tags = <<"fc:payment_failed", "evt:in_in_1", "evt:sub_sub_1">>

\* C10: a verified customer.subscription.updated event whose status is not
\* "active" causes no external call, not even the customer lookup at the
\* billing provider, and is answered 200.
C10_InactiveUpdateIgnored ==
    \A r \in Reqs :
        (/\ Verified(r)
         /\ req[r].event.type = SUB_UPDATED
         /\ req[r].event.status # "active") =>
            /\ req[r].calls = NoCalls
            /\ req[r].pc = "done"
            /\ req[r].status = 200

\* C10 witness: status past_due, with a customer reference to look up
C10_Witness ==
    \E r \in Reqs :
        /\ Verified(r)
        /\ req[r].event.type = SUB_UPDATED
        /\ req[r].event.status = "past_due"
        /\ req[r].event.customer # ""
        /\ req[r].status = 200

\* C11: a verified event whose type is not one of the five types of the
\* switch (customer.subscription.created, invoice.paid) makes no external
\* call and is answered 200, whatever it carries (an email, a customer id).
C11_OtherTypesIgnored ==
    \A r \in Reqs :
        (Verified(r) /\ req[r].event.type \notin HandledTypes) =>
            /\ req[r].calls = NoCalls
            /\ req[r].pc = "done"
            /\ req[r].status = 200
            /\ req[r].email = "" /\ req[r].tags = <<>>

\* C11 witness: customer.subscription.created with a customer reference,
\* answered 200 with the CRM left as it was
C11_Witness ==
    \E r \in Reqs :
        /\ Verified(r)
        /\ req[r].event.type = SUB_CREATED
        /\ req[r].event.customer # ""
        /\ req[r].pc = "done"
        /\ req[r].status = 200
        /\ req[r].calls = NoCalls
        /\ crm = req[r].pre

\* C12: when stripe.customers.retrieve throws for a
\* customer.subscription.deleted or an active customer.subscription.updated
\* event, the event is handled as one without email: the one call to the
\* billing provider is all that goes out, no CRM lookup and no CRM write is
\* made, and the answer is 200, never 500.
C12_RetrieveFailsSoft ==
    \A r \in Reqs :
        req[r].retrieve = "throw" =>
            /\ req[r].event.type \in {SUB_DELETED, SUB_UPDATED}
            /\ req[r].calls = [NoCalls EXCEPT !.stripe = 1]
            /\ req[r].email = ""
            /\ req[r].pc = "done"
            /\ req[r].status = 200

\* C12 witness: an active subscription.updated whose customer lookup threw,
\* while the CRM is configured and holds the contact
C12_Witness ==
    \E r \in Reqs :
        /\ req[r].event.type = SUB_UPDATED
        /\ req[r].event.status = "active"
        /\ req[r].retrieve = "throw"
        /\ trim(env.GHL_V1_API_KEY) # ""
        /\ crm[EmailA].exists
        /\ crm = req[r].pre
        /\ req[r].status = 200

\* C13: when the answer to the search for email e holds no contact with
\* email e (no contact at all, or only contacts with other emails), the
\* lookup yields no existing tags, and the payload for e is made of the
\* event's new tags only: tags of another contact are never merged in.
C13_ResolverMatchesEmail ==
    \A r \in Reqs :
        (impl = PART_003 /\ req[r].lookup \in {"empty", "other"}) =>
            /\ req[r].existingTags = <<>>
            /\ TagSet(req[r].mergedTags) = TagSet(req[r].tags)

\* r1 and then r2 were processed one after the other for the same contact,
\* with no other delivery at work since r1 arrived; both lookups returned
\* what the CRM held for the contact and both writes were accepted
InSequence(r1, r2) ==
    /\ r1 \in req[r2].before
    /\ \A q \in Reqs \ {r1, r2} : req[q].pc = "idle" \/ q \in req[r1].before
    /\ req[r1].pc = "done" /\ req[r2].pc = "done"
    /\ req[r1].email # "" /\ req[r1].email = req[r2].email
    /\ req[r1].lookup \in {"hit", "empty"}
    /\ req[r2].lookup \in {"hit", "empty"}
    /\ req[r1].result = "ok" /\ req[r2].result = "ok"

\* C14: after two events for the same contact were processed one after the
\* other with successful lookups, the contact's tag set is the union of the
\* tags it had before, the tags of the one event and the tags of the other:
\* an expression in which the two events can be exchanged, so the final tag
\* set is the same for either order of processing.
C14_TagMergeCommutes ==
    \A r1, r2 \in Reqs :
        (impl = PART_003 /\ InSequence(r1, r2)) =>
            LET e == req[r1].email
            IN  TagSet(crm[e].tags) =
                    TagSet(trimFilter(req[r1].pre[e].tags))
                    \cup TagSet(req[r1].tags) \cup TagSet(req[r2].tags)

\* C14 witness: a contact with tags of its own gets invoice.payment_failed
\* and then customer.subscription.updated (the reverse of the order in
\* which the two stable tags usually arrive), and ends with all of them
C14_Witness ==
    \E r1, r2 \in Reqs :
        /\ impl = PART_003
        /\ InSequence(r1, r2)
        /\ req[r1].event.type = SUB_UPDATED
        /\ req[r2].event.type = INV_FAILED
        /\ req[r1].pre[EmailA].tags # <<>>
        /\ {"fc:sub_active", "fc:payment_failed", "done:fc:trial_checkout"}
               \subseteq TagSet(crm[EmailA].tags)

\* r1 and then r2 were processed one after the other for the same contact,
\* with no other delivery at work since r1 arrived, and both writes were
\* accepted
WroteInSequence(r1, r2) ==
    /\ r1 \in req[r2].before
    /\ \A q \in Reqs \ {r1, r2} : req[q].pc = "idle" \/ q \in req[r1].before
    /\ req[r1].pc = "done" /\ req[r2].pc = "done"
    /\ req[r1].email # "" /\ req[r1].email = req[r2].email
    /\ req[r1].result = "ok" /\ req[r2].result = "ok"

\* C15: the audit fields of a write are last-write-wins: after two events
\* for one contact were written one after the other, the contact's
\* "Last Stripe Event Type" and "Last Stripe Event Time" are those of the
\* event written second, also when that event was created before the
\* first one; and every key of the second payload holds the payload's
\* value, whatever the contact held before.
C15_AuditFieldsLastWriteWins ==
    \A r1, r2 \in Reqs :
        WroteInSequence(r1, r2) =>
            LET f == crm[req[r2].email].fields
                o == req[r2].event
            IN  /\ Get(f, "Last Stripe Event Type") = o.type
                /\ Get(f, "Last Stripe Event Time") = toISOString(o.created)
                /\ \A k \in Keys(req[r2].customFields) :
                       Get(f, k) = Get(req[r2].customFields, k)
                /\ Keys(req[r2].customFields) # {}

\* C15 witness: an invoice event created on 2024-02-29 is written, then a
\* subscription event created on 2023-11-14; the contact ends with the
\* type and the time of the older event
C15_Witness ==
    \E r1, r2 \in Reqs :
        /\ WroteInSequence(r1, r2)
        /\ req[r1].event.type = INV_OK
        /\ req[r2].event.type = SUB_UPDATED
        /\ req[r1].event.created > req[r2].event.created
        /\ Get(req[r2].pre[EmailA].fields, "Last Stripe Event Time")
               = "2024-02-29T23:59:59.000Z"
        /\ Get(crm[EmailA].fields, "Last Stripe Event Time")
               = "2023-11-14T22:13:20.000Z"
        /\ Get(crm[EmailA].fields, "Last Stripe Event Type")
               = "customer.subscription.updated"

\* C16: an exception that leaves the switch (in the code: the rejected
\* fetch of the POST) is caught by the handler and answered 500; every
\* delivery that was answered got 200, 400 or 500; 400 is the answer to a
\* failed signature check and to nothing else; and 500 is the answer to an
\* exception during the dispatch of a verified event and to nothing else.
C16_StatusCodes ==
    \A r \in Reqs :
        req[r].pc = "done" =>
            /\ req[r].status \in {200, 400, 500}
            /\ req[r].status = 400 <=> ~Verified(r)
            /\ req[r].result = "throw" => req[r].status = 500
            /\ req[r].status = 500 => (Verified(r) /\ req[r].result = "throw")

\* C16 witness: a verified checkout whose POST to the CRM threw
C16_Witness ==
    \E r \in Reqs :
        /\ Verified(r)
        /\ req[r].event.type = CHECKOUT
        /\ req[r].result = "throw"
        /\ req[r].pc = "done"
        /\ req[r].status = 500
        /\ req[r].calls.ck = 0

\* C17: with GHL_V1_API_KEY or GHL_LOCATION_ID absent, no delivery makes a
\* CRM call (no GET, no POST), the CRM stays as it was, and every verified
\* event that was answered was answered 200.
C17_MissingCrmConfigIsNoOp ==
    (env.GHL_V1_API_KEY = "" \/ env.GHL_LOCATION_ID = "") =>
        \A r \in Reqs :
            /\ req[r].calls.get = 0
            /\ req[r].calls.post = 0
            /\ req[r].pc \notin {"lookup", "post"}
            /\ req[r].pc # "idle" => crm = req[r].pre
            /\ (Verified(r) /\ req[r].pc = "done") => req[r].status = 200

\* C17 witness: the location id is absent; a verified checkout with an email
\* went on to ConvertKit and was answered 200
C17_Witness ==
    \E r \in Reqs :
        /\ env.GHL_V1_API_KEY # "" /\ env.GHL_LOCATION_ID = ""
        /\ Verified(r)
        /\ req[r].event.type = CHECKOUT
        /\ req[r].email = EmailA
        /\ req[r].calls.ck = 1
        /\ req[r].calls.post = 0
        /\ req[r].pc = "done"
        /\ req[r].status = 200

ProbeOrder == <<"filtered", "unfiltered", "pipeline">>

\* what holds of every resolveV1StageIdByName call in every state
ProbesInOrder ==
    \A c \in Calls :
        LET q == call[c]
        IN  /\ Len(q.probes) <= 3
            /\ q.probes = SubSeq(ProbeOrder, 1, Len(q.probes))
            /\ q.source = "filtered" => q.probes = SubSeq(ProbeOrder, 1, 1)
            /\ q.source = "unfiltered" => q.probes = SubSeq(ProbeOrder, 1, 2)
            /\ q.source = "pipeline" => q.probes = ProbeOrder
            /\ q.source \in Range(ProbeOrder) =>
                   (q.pc = "returned" /\ q.ret # "" /\ _stageIdCache[q.key].has)
            /\ (q.pc # "idle" /\ q.atStart.has) =>
                   /\ q.pc = "returned"
                   /\ q.source = "cache"
                   /\ q.probes = <<>>
                   /\ q.ret = q.atStart.value

\* a call that returns from a probe leaves the id it returns in the cache,
\* under its key
StoresOnReturn ==
    \A c \in Calls :
        (call[c].pc \in {"try1", "try2", "try3"} /\ call'[c].pc = "returned") =>
            _stageIdCache'[call[c].key] = [has |-> TRUE, value |-> call'[c].ret]

\* C18: resolveV1StageIdByName sends its probes in the order filtered list,
\* unfiltered list, pipeline object; the probe that yields a stage id is
\* the last one sent; the id is stored in the cache under the key of the
\* call; and a call that finds its key in the cache returns the cached id
\* without sending any probe.
C18_ProbeOrderAndCache == []ProbesInOrder /\ [][StoresOnReturn]_vars

\* C18 witness: one call got its id from the second probe, and a later
\* call with the same key got the same id from the cache
C18_Witness ==
    \E c1, c2 \in Calls :
        /\ call[c1].source = "unfiltered"
        /\ call[c1].probes = <<"filtered", "unfiltered">>
        /\ call[c2].source = "cache"
        /\ call[c2].key = call[c1].key
        /\ call[c2].probes = <<>>
        /\ call[c2].ret = call[c1].ret
        /\ call[c2].ret = "st_1"

\* C19: when customer.subscription.deleted and then an active
\* customer.subscription.updated were written for one contact, one after
\* the other, the second event was answered 200 and the contact carries
\* both fc:sub_canceled and fc:sub_active: nothing was rejected, no tag
\* was taken away.
C19_CanceledAndActiveCoexist ==
    \A r1, r2 \in Reqs :
        (/\ impl = PART_003
         /\ WroteInSequence(r1, r2)
         /\ req[r1].event.type = SUB_DELETED
         /\ req[r2].event.type = SUB_UPDATED
         /\ req[r1].lookup # "other" /\ req[r2].lookup # "other") =>
            /\ req[r2].status = 200
            /\ {"fc:sub_canceled", "fc:sub_active"}
                   \subseteq TagSet(crm[req[r2].email].tags)

\* C20: the customFields of a write are computed from the event alone:
\* its type, its creation time and the ids of its object.  Two deliveries
\* of one event carry the same customFields, whenever they arrive and
\* whatever the CRM holds.
C20_AuditFieldsFromEventOnly ==
    /\ \A r \in Reqs :
          Wrote(r) =>
              LET f == req[r].customFields
                  o == req[r].event
              IN  /\ Get(f, "Last Stripe Event Type") = o.type
                  /\ Get(f, "Last Stripe Event Time") = toISOString(o.created)
                  /\ Get(f, "Stripe Customer ID") = o.customer
                  /\ o.type = CHECKOUT =>
                         Get(f, "Last Checkout Session ID") = o.id
                  /\ o.type \in {INV_OK, INV_FAILED} =>
                         /\ Get(f, "Last Invoice ID") = o.id
                         /\ Get(f, "Last Subscription ID") = o.subscription
                  /\ o.type \in {SUB_DELETED, SUB_UPDATED} =>
                         Get(f, "Last Subscription ID") = o.id
    /\ \A r1, r2 \in Reqs :
          (Wrote(r1) /\ Wrote(r2) /\ req[r1].event = req[r2].event) =>
              req[r1].customFields = req[r2].customFields

\* C20 witness: the invoice event of 2024-02-29 is delivered again after
\* its first delivery changed the contact; both payloads carry the same
\* four audit fields and the time of the event
C20_Witness ==
    \E r1, r2 \in Reqs :
        /\ r1 \in req[r2].before
        /\ Wrote(r1) /\ Wrote(r2)
        /\ req[r1].event = req[r2].event
        /\ req[r1].pre # req[r2].pre
        /\ req[r2].customFields = req[r1].customFields
        /\ req[r2].customFields =
              << <<"Last Invoice ID", "in_2">>,
                 <<"Last Subscription ID", "sub_1">>,
                 <<"Stripe Customer ID", "cus_1">>,
                 <<"Last Stripe Event Type", "invoice.payment_succeeded">>,
                 <<"Last Stripe Event Time", "2024-02-29T23:59:59.000Z">> >>

\* the halves a customer name is expected to split into
ExpectedNames(name) ==
    CASE name = "Jane Doe" -> <<"Jane", "Doe">>
      [] name = "  Mary  Ann\tSmith " -> <<"Mary", "Ann Smith">>
      [] name = "Cher" -> <<"Cher", "">>
      [] name = "   " -> <<"", "">>
      [] name = "" -> <<"", "">>

\* C21: the write for a checkout.session.completed carries as firstName the
\* first whitespace-delimited token of the customer name and as lastName
\* the remaining tokens joined by single spaces, both "" for a blank or
\* absent name; neither begins or ends with a space; and its tags hold
\* fc:trial_checkout and the evt:cs_ tag of the session.
C21_CheckoutIdentity ==
    \A r \in Reqs :
        (Wrote(r) /\ req[r].event.type = CHECKOUT) =>
            /\ <<req[r].firstName, req[r].lastName>>
                   = ExpectedNames(req[r].event.name)
            /\ trim(req[r].firstName) = req[r].firstName
            /\ trim(req[r].lastName) = req[r].lastName
            /\ {"fc:trial_checkout", "evt:cs_" \o req[r].event.id}
                   \subseteq TagSet(req[r].mergedTags)

\* C21 witness: name "Jane Doe", session cs_1
C21_Witness ==
    \E r \in Reqs :
        /\ req[r].event.type = CHECKOUT
        /\ req[r].event.name = "Jane Doe"
        /\ req[r].event.id = "cs_1"
        /\ req[r].pc = "post"
        /\ req[r].email = "a@x.com"
        /\ req[r].firstName = "Jane"
        /\ req[r].lastName = "Doe"
        /\ {"fc:trial_checkout", "evt:cs_cs_1"} \subseteq TagSet(req[r].mergedTags)

\* C22: in the merging implementation a delivery issues at most one POST
\* and at most one GET; when the POST is out, exactly one GET went out
\* before it and has settled (with a contact, without one, non-OK or
\* thrown); while the GET is pending no POST is out.
C22_OneLookupThenOneWrite ==
    \A r \in Reqs :
        impl = PART_003 =>
            /\ req[r].calls.post <= 1
            /\ req[r].calls.get <= 1
            /\ req[r].calls.post = 1 =>
                   /\ req[r].calls.get = 1
                   /\ req[r].lookup \in {"hit", "empty", "other", "notok", "throw"}
            /\ req[r].pc = "lookup" => req[r].calls.post = 0

\* C22 witness: the POST is pending after a lookup that got a non-OK answer
C22_Witness ==
    \E r \in Reqs :
        /\ impl = PART_003
        /\ req[r].pc = "post"
        /\ req[r].lookup = "notok"
        /\ req[r].calls.get = 1
        /\ req[r].calls.post = 1

\* a response, once sent, is the only one: the delivery does nothing more
OneResponse ==
    \A r \in Reqs : req[r].pc = "done" => req'[r] = req[r]

\* C23: a delivery that is received is eventually answered, on every path,
\* provided every call it awaits settles; the answer is 200, 400 or 500;
\* and after the answer the delivery sends nothing further.
C23_EventuallyOneResponse ==
    /\ \A r \in Reqs :
          (req[r].pc # "idle") ~>
              (req[r].pc = "done" /\ req[r].status \in {200, 400, 500})
    /\ [][OneResponse]_vars

\* C23 witness: two deliveries answered, one after a swallowed upsert
\* failure (non-OK POST, 200), one after an exception (thrown POST, 500)
C23_Witness ==
    \E r1, r2 \in Reqs :
        /\ req[r1].pc = "done" /\ req[r2].pc = "done"
        /\ req[r1].result = "notok" /\ req[r1].status = 200
        /\ req[r2].result = "throw" /\ req[r2].status = 500

\* an entry of the cache stays as it is
CacheStable ==
    \A k \in CacheKeys :
        _stageIdCache[k].has => _stageIdCache'[k] = _stageIdCache[k]

\* C24: once a (pipelineId, stageName) key is in the stage-id cache, its
\* value never changes and the key is never removed, under any interleaving
\* of concurrent resolveV1StageIdByName calls, two calls for one key that
\* both start before either has stored included.
C24_CacheEntryNeverChanges == [][CacheStable]_vars

\* C25: a stage id returned and cached by resolveV1StageIdByName for
\* (pipelineId, stageName) was read from a record whose stage name equals
\* stageName case-insensitively and which belongs to the pipeline asked
\* for; a stage of the same name in another pipeline is never returned.
C25_StageOfRequestedPipeline ==
    \A c \in Calls :
        call[c].source \in Range(ProbeOrder) =>
            /\ call[c].ret = call[c].hit.stageId
            /\ matchName(call[c].hit.stageName, call[c].stageName)
            /\ call[c].hit.pipelineId = call[c].pipelineId

\* the cache holds no empty id
NoFailureCached ==
    \A k \in CacheKeys : _stageIdCache[k].has => _stageIdCache[k].value # ""

\* a call that throws leaves the cache as it was
ThrowKeepsCache ==
    \A c \in Calls :
        (call[c].pc # "thrown" /\ call'[c].pc = "thrown") =>
            _stageIdCache' = _stageIdCache

\* a call that begins after a call with the same key has thrown, the key
\* still not being in the cache, sends the first probe
ProbesAgain ==
    \A c, d \in Calls :
        (/\ call[c].pc = "idle" /\ call'[c].pc # "idle"
         /\ call[d].pc = "thrown" /\ call[d].key = call'[c].key
         /\ ~_stageIdCache[call[d].key].has) =>
            /\ call'[c].pc = "try1"
            /\ call'[c].probes = <<"filtered">>

\* the checkout handler after a failed resolution: no opportunity POST,
\* and a 200 unless a later step of the handler threw
FailedResolveSkipsOpportunity ==
    \A r \in Reqs :
        req[r].resolve = "thrown" =>
            /\ call[r].pc = "thrown"
            /\ req[r].v1StageId = ""
            /\ req[r].opp = "skipped"
            /\ req[r].pc # "opp"
            /\ (req[r].pc = "done" /\ req[r].later = "") => req[r].status = 200
            /\ req[r].pc = "done" => req[r].status \in {200, 500}

C27_OneOpportunityPerSession ==
    \A r1, r2 \in Reqs :
        (/\ r1 \in req[r2].before
         /\ req[r1].event.type = CHECKOUT
         /\ req[r2].event = req[r1].event) =>
            Cardinality({i \in 1..Len(opportunities) :
                opportunities[i].session = req[r1].event.id}) <= 1

\* the ConvertKit fetches convertKitSubscribe sends under this environment
ExpectedCkCalls ==
    IF env.CONVERTKIT_API_KEY = "" THEN 0
    ELSE (IF env.CONVERTKIT_FORM_ID # "" THEN 1 ELSE 0)
         + Len(trimFilter(splitComma(env.CONVERTKIT_TAG_IDS)))

\* the upsert step of the delivery is over: ghlV1UpsertContact returned
\* without a POST (configuration missing), or its POST was answered
UpsertFinished(r) ==
    /\ req[r].pc \notin {"stripe", "lookup", "post"}
    /\ \/ req[r].calls.post = 0
       \/ req[r].result \in {"ok", "notok"}

\* C28: for checkout.session.completed with a resolvable email the
\* ConvertKit step runs after the CRM upsert step has finished, and it runs
\* whether the upsert POST was answered OK or non-OK; a ConvertKit call that
\* throws is swallowed, the handler still answers 200; for every other
\* event type and for dropped events no ConvertKit call is made.
C28_ConvertKitAfterUpsert ==
    \A r \in Reqs :
        impl = PART_003 =>
            /\ req[r].calls.ck > 0 =>
                   /\ req[r].event.type = CHECKOUT
                   /\ req[r].email # ""
                   /\ UpsertFinished(r)
                   /\ req[r].calls.ck <= ExpectedCkCalls
            /\ (req[r].event.type # CHECKOUT \/ req[r].email = "") =>
                   req[r].calls.ck = 0
            /\ (/\ req[r].event.type = CHECKOUT
                /\ req[r].email # ""
                /\ UpsertFinished(r)) =>
                   /\ req[r].pc \in {"ck", "done"}
                   /\ req[r].pc = "ck" => req[r].calls.ck >= 1
                   /\ req[r].pc = "done" =>
                          /\ req[r].calls.ck = ExpectedCkCalls
                          /\ req[r].status = 200

\* C28 witness: a checkout whose upsert POST got a non-OK answer was
\* followed by both ConvertKit calls and answered 200
C28_Witness ==
    \E r \in Reqs :
        /\ impl = PART_003
        /\ req[r].event.type = CHECKOUT
        /\ req[r].result = "notok"
        /\ req[r].calls.ck = 2
        /\ req[r].pc = "done"
        /\ req[r].status = 200

\* C29: for POST / with a messages array, whenever the completion call does
\* not fail the response is 200 {success: true, reply}, whether or not a
\* flavor profile was loaded: with uid absent or blank, the user document
\* missing, the document without a flavorProfile, or the Firestore read
\* throwing, the request is relayed with the unpersonalized system prompt.
C29_ChatRelaysWithoutProfile ==
    \A r \in Reqs :
        (/\ req[r].pc = "done"
         /\ req[r].messages.type = "array"
         /\ req[r].completion # "throw") =>
            /\ req[r].status = 200
            /\ req[r].body.success
            /\ req[r].body.reply \in Replies
            /\ req[r].load # "loaded" =>
                   req[r].prompt = buildSystemPrompt(EmptyObject).content

====
